---- MODULE Spec2Model ----
(***************************************************************************)
(* Model of console-tree.py: repr_tree renders a JSON-like value as a text *)
(* tree.  Strings are sequences of one-character strings, so that strip(), *)
(* str(), format() and join() are computed character by character.  Row    *)
(* and column indices are 0-based as in the source; At/SetAt translate to  *)
(* the 1-based sequences of TLA+.                                          *)
(***************************************************************************)
EXTENDS Integers, Sequences, FiniteSets, TLC

\* ------------------------------------------------------------------ bounds

\* Largest number of values (containers and scalars) in a document of
\* arbitrary shape.
MaxNodes == 4

\* Number of items of the one-list documents {key: [item, ...]}.
MaxItems == 3

\* Largest length of the key and of the string of the documents {key: leaf}.
MaxStrLen == 2

\* ------------------------------------------------- constants of the source

\* The box-drawing characters of the source, written with ASCII stand-ins:
\* U+251C, U+2502, U+2514, U+2500.
JUNCTION == "+"
VERTICAL == "|"
CORNER == "L"
HORIZONTAL == "-"

EMPTY_CELL == <<>>

\* The separator of the final "\n".join.
NL == "\n"

\* ------------------------------------------------------- Python primitives

\* str.strip(): drop leading and trailing whitespace.
RECURSIVE StripLeft(_)
StripLeft(s) ==
    IF s = <<>> THEN s
    ELSE IF Head(s) = " " THEN StripLeft(Tail(s)) ELSE s

RECURSIVE StripRight(_)
StripRight(s) ==
    IF s = <<>> THEN s
    ELSE IF s[Len(s)] = " " THEN StripRight(SubSeq(s, 1, Len(s) - 1)) ELSE s

Strip(s) == StripRight(StripLeft(s))

\* c * n for a one-character string c (empty when n <= 0).
Rep(c, n) == [k \in 1..n |-> c]

\* "{0:<w}".format(s): left-justify, pad with spaces, never truncate.
LJust(s, w) == IF Len(s) >= w THEN s ELSE s \o Rep(" ", w - Len(s))

Digits == <<"0", "1", "2", "3", "4", "5", "6", "7", "8", "9">>

\* str(n) for a non-negative int.
RECURSIVE IntToStr(_)
IntToStr(n) ==
    IF n < 10 THEN <<Digits[n + 1]>>
    ELSE IntToStr(n \div 10) \o <<Digits[(n % 10) + 1]>>

\* str(b) for a bool.
BoolToStr(b) == IF b THEN <<"T", "r", "u", "e">> ELSE <<"F", "a", "l", "s", "e">>

Max(a, b) == IF a >= b THEN a ELSE b

\* --------------------------------------------------------- the value model

\* A decoded JSON value.  kind is one of "str", "int", "bool", "null",
\* "list", "dict"; kids holds the items of a list (key unused) or the
\* (key, value) pairs of a dict in iteration order.
StrVal(s) == [kind |-> "str", text |-> s, num |-> 0, kids |-> <<>>]
IntVal(n) == [kind |-> "int", text |-> <<>>, num |-> n, kids |-> <<>>]
BoolVal(b) == [kind |-> "bool", text |-> <<>>, num |-> IF b THEN 1 ELSE 0, kids |-> <<>>]
NullVal == [kind |-> "null", text |-> <<>>, num |-> 0, kids |-> <<>>]
ListVal(es) == [kind |-> "list", text |-> <<>>, num |-> 0, kids |-> es]
DictVal(es) == [kind |-> "dict", text |-> <<>>, num |-> 0, kids |-> es]

IsAtomic(t) == t.kind \in {"str", "int", "bool"}

\* str(tree_object) for an atomic value.
AtomText(t) ==
    IF t.kind = "str" THEN t.text
    ELSE IF t.kind = "int" THEN IntToStr(t.num)
    ELSE BoolToStr(t.num = 1)

\* ------------------------------------------------------------ the inputs

\* Dictionary keys and scalar values the documents of arbitrary shape are
\* built from: a plain key, a whitespace-only key, a longer key; a plain
\* string, a whitespace-only string, a two-digit number, and null.
Keys == {<<"a">>, <<" ">>, <<"b", "c">>}

Scalars == {StrVal(<<"x">>), StrVal(<<" ">>), IntVal(12), NullVal}

NoKey == <<>>

DistinctKeys(es) == \A p, q \in 1..Len(es) : p # q => es[p].key # es[q].key

\* The input documents are kept as families of disjoint sets, one per shape:
\* TT[n] is the family of the values of n nodes, FF[m + 1] the family of the
\* entry lists whose values have m nodes in total.

\* One set of entry lists per pair of a set of first values and a set of
\* remaining entry lists.
EntryProducts(ks, tps, fps) ==
    [r \in 1..(Len(tps) * Len(fps)) |->
        LET tp == tps[((r - 1) \div Len(fps)) + 1]
            fp == fps[((r - 1) % Len(fps)) + 1]
        IN  {<<[key |-> k, val |-> t]>> \o f : k \in ks, t \in tp, f \in fp}]

RECURSIVE ForestsFrom(_, _, _, _, _)
ForestsFrom(a, m, ks, TT, FF) ==
    IF a > m THEN <<>>
    ELSE EntryProducts(ks, TT[a], FF[m - a + 1]) \o ForestsFrom(a + 1, m, ks, TT, FF)

ForestsOf(m, ks, TT, FF) ==
    IF m = 0 THEN <<{<<>>}>> ELSE ForestsFrom(1, m, ks, TT, FF)

\* The values of n nodes: a scalar, a list or a dict (with distinct keys)
\* over entry lists of n - 1 nodes.
TreesOf(n, fl, fd) ==
    (IF n = 1 THEN <<Scalars>> ELSE <<>>)
    \o [p \in 1..Len(fl) |-> {ListVal(es) : es \in fl[p]}]
    \o [p \in 1..Len(fd) |-> {DictVal(es) : es \in {f \in fd[p] : DistinctKeys(f)}}]

\* TT[n], for n in 1..MaxNodes, built level by level.
RECURSIVE BuildTrees(_, _, _, _)
BuildTrees(n, TT, FL, FD) ==
    IF n > MaxNodes THEN TT
    ELSE LET fl == ForestsOf(n - 1, {NoKey}, TT, FL)
             fd == ForestsOf(n - 1, Keys, TT, FD)
         IN  BuildTrees(n + 1, Append(TT, TreesOf(n, fl, fd)),
                        Append(FL, fl), Append(FD, fd))

TreesBySize == BuildTrees(1, <<>>, <<>>, <<>>)

\* {key: [item, ...]} with MaxItems scalar items.
WideDocs ==
    {DictVal(<<[key |-> k, val |-> ListVal([n \in 1..MaxItems |-> [key |-> NoKey, val |-> items[n]]])]>>) :
        k \in Keys, items \in [1..MaxItems -> Scalars]}

\* {key: leaf} for every key and every string leaf of up to MaxStrLen
\* letters and spaces, and for a number and a bool as the leaf.
Chars == {"a", " "}

Strings == UNION {[1..n -> Chars] : n \in 0..MaxStrLen}

LeafDocs ==
    {DictVal(<<[key |-> k, val |-> v]>>) :
        k \in Strings, v \in {StrVal(s) : s \in Strings} \cup {IntVal(7), BoolVal(TRUE)}}

\* -------------------------------------------------------- tabularize_tree

Ok(cs) == [err |-> "none", cells |-> cs]
Fail(e) == [err |-> e, cells |-> <<>>]

\* Prefix without the offset: the rows of a child stay in the column of
\* their parent.
PrefixDropped(rows) == rows

Prefix(rows) == [r \in 1..Len(rows) |-> <<EMPTY_CELL>> \o rows[r]]

RECURSIVE MaxRowLen(_)
MaxRowLen(rows) ==
    IF Len(rows) = 1 THEN Len(rows[1])
    ELSE Max(Len(rows[1]), MaxRowLen(Tail(rows)))

PadRows(rows) ==
    LET max_row_len == MaxRowLen(rows)
    IN  [r \in 1..Len(rows) |->
            rows[r] \o [k \in 1..(max_row_len - Len(rows[r])) |-> EMPTY_CELL]]

\* The loops of tabularize_tree over the children of a container, from the
\* k-th child on, with the rows gathered so far.  how is "items" (simple
\* mode list), "index" (list with indices) or "key" (dict).  The first
\* exception raised by a child ends the loop.
RECURSIVE tabularize_tree(_, _), TabLoop(_, _, _, _, _)
TabLoop(kids, simple_mode, how, k, acc) ==
    IF k > Len(kids) THEN Ok(acc)
    ELSE LET sub == tabularize_tree(kids[k].val, simple_mode)
         IN  IF sub.err # "none" THEN sub
             ELSE TabLoop(kids, simple_mode, how, k + 1,
                     IF how = "items" THEN acc \o sub.cells
                     ELSE IF how = "index"
                          THEN acc \o <<<<IntToStr(k - 1)>>>> \o Prefix(sub.cells)
                          ELSE acc \o <<<<kids[k].key>>>> \o Prefix(sub.cells))

tabularize_tree(tree_object, simple_mode) ==
    IF IsAtomic(tree_object)
    THEN IF tree_object.kind = "str" /\ Strip(tree_object.text) = <<>>
         THEN Fail("EmptyScalar")
         ELSE Ok(<<<<AtomText(tree_object)>>>>)
    ELSE IF tree_object.kind = "list"
    THEN TabLoop(tree_object.kids, simple_mode,
                 IF simple_mode THEN "items" ELSE "index", 1, <<>>)
    ELSE IF tree_object.kind = "dict"
    THEN LET got == TabLoop(tree_object.kids, simple_mode, "key", 1, <<>>)
         IN  IF got.err # "none" THEN got
             ELSE IF got.cells = <<>> THEN Fail("EmptyMax")
             ELSE Ok(PadRows(got.cells))
    ELSE Fail("UnsupportedType")

\* ------------------------------------------------------ grid primitives

At(cells, i, j) == cells[i + 1][j + 1]

SetAt(cells, i, j, v) == [cells EXCEPT ![i + 1][j + 1] = v]

IsBlank(s) == Strip(s) = <<>>

\* s[1:]
Rest(s) == SubSeq(s, 2, Len(s))

\* draw with a HORIZONTAL that writes CORNER and leaves the rest of the cell
\* blank.
draw_nofill(cells, element, i, j) ==
    LET cell == At(cells, i, j)
        cell_val == IF IsBlank(cell) THEN "" ELSE cell[1]
    IN  IF element = VERTICAL
        THEN IF cell_val = "" \/ cell_val = VERTICAL
             THEN Ok(SetAt(cells, i, j, <<VERTICAL>> \o Rest(cell)))
             ELSE IF cell_val = CORNER
             THEN Ok(SetAt(cells, i, j, <<JUNCTION>> \o Rest(cell)))
             ELSE IF cell_val = JUNCTION
             THEN Ok(cells)
             ELSE Fail("DrawViolation")
        ELSE IF element = HORIZONTAL
        THEN IF cell_val = ""
             THEN Ok(SetAt(cells, i, j, <<CORNER>> \o Rest(cell)))
             ELSE Fail("DrawViolation")
        ELSE Ok(cells)

\* draw: the changed grid, or the RuntimeError of a misuse.
draw(cells, element, i, j) ==
    LET cell == At(cells, i, j)
        cell_len == Len(cell)
        cell_val == IF IsBlank(cell) THEN "" ELSE cell[1]
    IN  IF element = VERTICAL
        THEN IF cell_val = "" \/ cell_val = VERTICAL
             THEN Ok(SetAt(cells, i, j, <<VERTICAL>> \o Rest(cell)))
             ELSE IF cell_val = CORNER
             THEN Ok(SetAt(cells, i, j, <<JUNCTION>> \o Rest(cell)))
             ELSE IF cell_val = JUNCTION
             THEN Ok(cells)
             ELSE Fail("DrawViolation")
        ELSE IF element = HORIZONTAL
        THEN IF cell_val = ""
             THEN Ok(SetAt(cells, i, j, <<CORNER>> \o Rep(HORIZONTAL, cell_len - 1)))
             ELSE Fail("DrawViolation")
        ELSE Ok(cells)

\* fit_column_width: the widths of the columns of the first row, then every
\* row formatted cell by cell (zip stops at the shorter of formats and row).
\* A row shorter than the first row, or no row at all, is an IndexError.
ColWidths(cells) ==
    [c \in 1..Len(cells[1]) |->
        LET lens == {Len(cells[r][c]) : r \in 1..Len(cells)}
        IN  CHOOSE w \in lens \cup {0} : \A v \in lens : w >= v]

\* fit_column_width with the widths taken from the first row alone.
fit_column_width_first_row(cells) ==
    IF cells = <<>> THEN Fail("IndexError")
    ELSE IF \E r \in 1..Len(cells) : Len(cells[r]) < Len(cells[1])
    THEN Fail("IndexError")
    ELSE Ok([r \in 1..Len(cells) |->
                [c \in 1..Len(cells[1]) |-> LJust(cells[r][c], Len(cells[1][c]))]])

fit_column_width(cells) ==
    IF cells = <<>> THEN Fail("IndexError")
    ELSE IF \E r \in 1..Len(cells) : Len(cells[r]) < Len(cells[1])
    THEN Fail("IndexError")
    ELSE LET col_widths == ColWidths(cells)
         IN  Ok([r \in 1..Len(cells) |->
                    [c \in 1..Len(col_widths) |-> LJust(cells[r][c], col_widths[c])]])

\* The increasing sequence of the members of a set of row indices.
RECURSIVE Ascending(_)
Ascending(S) ==
    IF S = {} THEN <<>>
    ELSE LET m == CHOOSE x \in S : \A y \in S : x <= y
         IN  <<m>> \o Ascending(S \ {m})

find_parents(cells, j) ==
    Ascending({i \in 0..(Len(cells) - 1) : ~IsBlank(At(cells, i, j))})

\* find_children: the scan from row i + 1 stops at the first row whose cell
\* in column j is not blank.
RECURSIVE ScanChildren(_, _, _)
ScanChildren(cells, i, j) ==
    IF i >= Len(cells) THEN <<>>
    ELSE IF ~IsBlank(At(cells, i, j)) THEN <<>>
    ELSE (IF ~IsBlank(At(cells, i, j + 1)) THEN <<i>> ELSE <<>>)
         \o ScanChildren(cells, i + 1, j)

\* find_children without the stop at the next parent of the column.
find_children_past(cells, i, j) ==
    Ascending({r \in (i + 1)..(Len(cells) - 1) :
                 IsBlank(At(cells, r, j)) /\ ~IsBlank(At(cells, r, j + 1))})

find_children(cells, i, j) == ScanChildren(cells, i + 1, j)

\* "".join(row) and "\n".join(lines)
RECURSIVE Concat(_)
Concat(row) == IF row = <<>> THEN <<>> ELSE Head(row) \o Concat(Tail(row))

RECURSIVE JoinLines(_)
JoinLines(lines) ==
    IF lines = <<>> THEN <<>>
    ELSE IF Len(lines) = 1 THEN lines[1]
    ELSE lines[1] \o <<NL>> \o JoinLines(Tail(lines))

Serialize(cells) == JoinLines([r \in 1..Len(cells) |-> Concat(cells[r])])

\* len(tree_object) of repr_tree: -1 stands for the TypeError of len() on a
\* number, a bool or None.
PyLen(t) ==
    IF t.kind \in {"list", "dict"} THEN Len(t.kids)
    ELSE IF t.kind = "str" THEN Len(t.text)
    ELSE -1

\* ---------------------------------------------------------------- state

VARIABLES
    tree_object,   \* the argument of repr_tree
    simple_mode,   \* the argument of repr_tree
    pc,            \* position in repr_tree
    cells,         \* the table
    col_widths,    \* the column widths fit_column_width computed
    j,             \* column of the drawing loop
    parents,       \* parent rows of column j still to be served
    parent_i,      \* the parent being served
    children,      \* child rows of parent_i still to be connected
    child_i,       \* the child being connected
    i,             \* row of the next VERTICAL of connect
    err,           \* "none", or the exception that ended repr_tree
    result         \* the returned text; <<>> until repr_tree returns

vars == <<tree_object, simple_mode, pc, cells, col_widths, j, parents, parent_i, children,
          child_i, i, err, result>>

Init ==
    /\ \/ \E n \in 1..MaxNodes : \E p \in 1..Len(TreesBySize[n]) :
              tree_object \in TreesBySize[n][p]
       \/ tree_object \in WideDocs
       \/ tree_object \in LeafDocs
    /\ simple_mode \in BOOLEAN
    /\ pc = "repr_tree"
    /\ cells = <<>>
    /\ col_widths = <<>>
    /\ j = 0
    /\ parents = <<>>
    /\ parent_i = 0
    /\ children = <<>>
    /\ child_i = 0
    /\ i = 0
    /\ err = "none"
    /\ result = <<>>

Raise(e) ==
    /\ pc' = "raised"
    /\ err' = e

\* repr_tree, lines 235-236: the root check.
RootCheck ==
    /\ pc = "repr_tree"
    /\ IF PyLen(tree_object) = -1 THEN Raise("NoLen")
       ELSE IF PyLen(tree_object) # 1 THEN Raise("MissingRoot")
       ELSE pc' = "tabularize" /\ err' = err
    /\ UNCHANGED <<tree_object, simple_mode, col_widths, cells, j, parents, parent_i,
                   children, child_i, i, result>>

\* repr_tree, line 239.
Tabularize ==
    /\ pc = "tabularize"
    /\ LET got == tabularize_tree(tree_object, simple_mode)
       IN  IF got.err # "none"
           THEN Raise(got.err) /\ cells' = cells
           ELSE pc' = "trivial" /\ err' = err /\ cells' = got.cells
    /\ UNCHANGED <<tree_object, simple_mode, col_widths, j, parents, parent_i, children,
                   child_i, i, result>>

\* repr_tree, lines 242-243: a table of one row is returned as it is.
TrivialCase ==
    /\ pc = "trivial"
    /\ Len(cells) = 1
    /\ pc' = "returned"
    /\ result' = cells[1][1]
    /\ UNCHANGED <<tree_object, simple_mode, col_widths, cells, j, parents, parent_i,
                   children, child_i, i, err>>

\* repr_tree, line 247.
FitColumnWidth ==
    /\ pc = "trivial"
    /\ Len(cells) # 1
    /\ LET got == fit_column_width(cells)
       IN  IF got.err # "none"
           THEN Raise(got.err) /\ cells' = cells
           ELSE pc' = "column" /\ err' = err /\ cells' = got.cells
    /\ col_widths' = IF fit_column_width(cells).err = "none"
                     THEN ColWidths(cells) ELSE col_widths
    /\ j' = 0
    /\ UNCHANGED <<tree_object, simple_mode, parents, parent_i, children,
                   child_i, i, result>>

\* repr_tree, lines 250-252: enter column j.
EnterColumn ==
    /\ pc = "column"
    /\ j < Len(cells[1]) - 1
    /\ parents' = find_parents(cells, j)
    /\ pc' = "parent"
    /\ UNCHANGED <<tree_object, simple_mode, col_widths, cells, j, parent_i, children,
                   child_i, i, err, result>>

\* repr_tree, lines 255-258: the next parent of the column, or the next
\* column when none is left.
NextParent ==
    /\ pc = "parent"
    /\ IF parents = <<>>
       THEN /\ j' = j + 1
            /\ pc' = "column"
            /\ UNCHANGED <<parents, parent_i, children>>
       ELSE /\ parent_i' = Head(parents)
            /\ parents' = Tail(parents)
            /\ children' = find_children(cells, Head(parents), j)
            /\ pc' = "child"
            /\ j' = j
    /\ UNCHANGED <<tree_object, simple_mode, col_widths, cells, child_i, i, err, result>>

\* repr_tree, lines 258-259: the next child of the parent.
NextChild ==
    /\ pc = "child"
    /\ IF children = <<>>
       THEN /\ pc' = "parent"
            /\ UNCHANGED <<children, child_i>>
       ELSE /\ child_i' = Head(children)
            /\ children' = Tail(children)
            /\ pc' = "connect"
    /\ UNCHANGED <<tree_object, simple_mode, col_widths, cells, j, parents, parent_i, i,
                   err, result>>

\* connect, lines 150-155: the check of the rows, then the first VERTICAL.
Connect ==
    /\ pc = "connect"
    /\ IF child_i <= parent_i
       THEN Raise("InvalidConnection") /\ i' = i
       ELSE pc' = "draw" /\ err' = err /\ i' = parent_i + 1
    /\ UNCHANGED <<tree_object, simple_mode, col_widths, cells, j, parents, parent_i,
                   children, child_i, result>>

\* connect, lines 155-156: one VERTICAL of the loop.
DrawVertical ==
    /\ pc = "draw"
    /\ i < child_i
    /\ LET got == draw(cells, VERTICAL, i, j)
       IN  IF got.err # "none"
           THEN Raise(got.err) /\ cells' = cells
           ELSE pc' = pc /\ err' = err /\ cells' = got.cells
    /\ i' = i + 1
    /\ UNCHANGED <<tree_object, simple_mode, col_widths, j, parents, parent_i, children,
                   child_i, result>>

\* connect, line 159: the HORIZONTAL on the child's row.
DrawHorizontal ==
    /\ pc = "draw"
    /\ i >= child_i
    /\ LET got == draw(cells, HORIZONTAL, child_i, j)
       IN  IF got.err # "none"
           THEN Raise(got.err) /\ cells' = cells
           ELSE pc' = "child" /\ err' = err /\ cells' = got.cells
    /\ UNCHANGED <<tree_object, simple_mode, col_widths, j, parents, parent_i, children,
                   child_i, i, result>>

\* repr_tree, line 261: all columns served, the table is joined.
Return ==
    /\ pc = "column"
    /\ j >= Len(cells[1]) - 1
    /\ pc' = "returned"
    /\ result' = Serialize(cells)
    /\ UNCHANGED <<tree_object, simple_mode, col_widths, cells, j, parents, parent_i,
                   children, child_i, i, err>>

Next ==
    \/ RootCheck
    \/ Tabularize
    \/ TrivialCase
    \/ FitColumnWidth
    \/ EnterColumn
    \/ NextParent
    \/ NextChild
    \/ Connect
    \/ DrawVertical
    \/ DrawHorizontal
    \/ Return

Spec == Init /\ [][Next]_vars

\* ------------------------------------------- the tree behind a document

\* The document is a dict with exactly one key.
IsSingleRoot(t) == t.kind = "dict" /\ Len(t.kids) = 1

\* Every value of the document, the document included.
RECURSIVE Nodes(_)
Nodes(t) == {t} \cup UNION {Nodes(t.kids[k].val) : k \in 1..Len(t.kids)}

\* The values strictly below the root key of a single-root document.
NodesBelowRoot(t) == Nodes(t.kids[1].val)

HasBlankLeaf(t) == \E n \in Nodes(t) : n.kind = "str" /\ \A k \in 1..Len(n.text) : n.text[k] = " "

HasNull(t) == \E n \in Nodes(t) : n.kind = "null"

HasEmptyContainer(t) == \E n \in NodesBelowRoot(t) : n.kind \in {"list", "dict"} /\ n.kids = <<>>

\* The labels of a document in depth-first pre-order, each with the number
\* of its labelled ancestors: dict keys, scalars and, unless simple_mode,
\* list indices.
RECURSIVE Labels(_, _, _), KidLabels(_, _, _, _, _)
KidLabels(t, simple, d, k, acc) ==
    IF k > Len(t.kids) THEN acc
    ELSE KidLabels(t, simple, d, k + 1,
            IF t.kind = "dict"
            THEN acc \o <<[depth |-> d, text |-> t.kids[k].key]>>
                     \o Labels(t.kids[k].val, simple, d + 1)
            ELSE IF simple
            THEN acc \o Labels(t.kids[k].val, simple, d)
            ELSE acc \o <<[depth |-> d, text |-> IntToStr(k - 1)]>>
                     \o Labels(t.kids[k].val, simple, d + 1))

Labels(t, simple, d) ==
    IF IsAtomic(t) THEN <<[depth |-> d, text |-> AtomText(t)]>>
    ELSE KidLabels(t, simple, d, 1, <<>>)

TreeLabels == Labels(tree_object, simple_mode, 0)

\* The rows of the children of the label on row p (0-based), and the rows
\* below p up to the next label of p's column.
ChildRows(L, p) ==
    {r \in (p + 1)..(Len(L) - 1) :
        /\ L[r + 1].depth = L[p + 1].depth + 1
        /\ \A q \in (p + 1)..(r - 1) : L[q + 1].depth > L[p + 1].depth}

RowsBelow(L, p) ==
    {r \in (p + 1)..(Len(L) - 1) : \A q \in (p + 1)..r : L[q + 1].depth # L[p + 1].depth}

SetMax(S) == CHOOSE x \in S : \A y \in S : y <= x

\* The cell of row r and column c, or a cell no text equals when the grid
\* has no such cell.
CellAt(g, r, c) ==
    IF r < Len(g) /\ c < Len(g[r + 1]) THEN At(g, r, c) ELSE <<"missing">>

FirstChar(cell) == IF cell = <<>> THEN "" ELSE cell[1]

\* The lines of a text.
RECURSIVE Lines(_)
Lines(s) ==
    IF \A k \in 1..Len(s) : s[k] # NL THEN <<s>>
    ELSE LET n == CHOOSE k \in 1..Len(s) : s[k] = NL /\ \A q \in 1..(k - 1) : s[q] # NL
         IN  <<SubSeq(s, 1, n - 1)>> \o Lines(SubSeq(s, n + 1, Len(s)))

StartsWith(s, p) == Len(s) >= Len(p) /\ SubSeq(s, 1, Len(p)) = p

Contains(s, p) == \E k \in 0..(Len(s) - Len(p)) : SubSeq(s, k + 1, k + Len(p)) = p

Finished == pc \in {"returned", "raised"}

\* ---------------------------------------------------------------- claims

\* C1: repr_tree fails with MissingRoot, before any tabularization, for
\* every top-level value that is not a dict with exactly one entry: every
\* bare list, every bare scalar, every dict of zero or several entries.
C1_MissingRootUnlessSingleRoot ==
    (pc # "repr_tree" /\ ~IsSingleRoot(tree_object))
        => (pc = "raised" /\ err = "MissingRoot" /\ cells = <<>>)

\* The single-root documents {key: scalar} rendered with indices (simple
\* mode off), the scalar not being an empty or whitespace-only string.
IsRootLeafCase ==
    /\ IsSingleRoot(tree_object)
    /\ IsAtomic(tree_object.kids[1].val)
    /\ ~HasBlankLeaf(tree_object)
    /\ ~simple_mode

RootKey == tree_object.kids[1].key

LeafText == AtomText(tree_object.kids[1].val)

ConnectorUnder(key) ==
    IF IsBlank(key) THEN Rep(" ", Len(key))
    ELSE <<CORNER>> \o Rep(HORIZONTAL, Len(key) - 1)

C3_ConnectorsFollowTree ==
    (pc = "returned" /\ IsSingleRoot(tree_object))
        => LET L == TreeLabels
           IN  \A p \in 0..(Len(L) - 1) :
                 LET kids == ChildRows(L, p)
                     col == L[p + 1].depth
                 IN  kids # {} =>
                       \A r \in RowsBelow(L, p) :
                         LET cell == CellAt(cells, r, col)
                         IN  IF r = SetMax(kids) THEN FirstChar(cell) = CORNER
                             ELSE IF r \in kids THEN FirstChar(cell) = JUNCTION
                             ELSE IF r < SetMax(kids) THEN FirstChar(cell) = VERTICAL
                             ELSE IsBlank(cell)

\* The row a pending draw of connect is aimed at.
DrawTarget == IF i < child_i THEN i ELSE child_i

\* C4, for single-root documents: connector drawing never touches an
\* occupied cell: no draw call is aimed at the cell of a key, an index or a
\* scalar, and in the final grid each such cell holds its text followed by
\* spaces only.
C4_OccupiedCellsUntouched ==
    IsSingleRoot(tree_object)
        => LET L == TreeLabels
           IN  /\ pc = "draw" => L[DrawTarget + 1].depth # j
               /\ (pc = "returned" /\ Len(cells) > 1) =>
                    \A r \in 0..(Len(L) - 1) :
                      LET cell == CellAt(cells, r, L[r + 1].depth)
                          text == L[r + 1].text
                      IN  /\ Len(cell) >= Len(text)
                          /\ cell = text \o Rep(" ", Len(cell) - Len(text))

\* C5: a single-root tree of scalars, lists and dicts that contains an
\* empty or whitespace-only string leaf makes repr_tree fail with
\* EmptyScalar, in either mode, and no text is returned.
C5_BlankLeafIsEmptyScalar ==
    (Finished /\ IsSingleRoot(tree_object) /\ HasBlankLeaf(tree_object)
              /\ ~HasNull(tree_object))
        => (pc = "raised" /\ err = "EmptyScalar" /\ result = <<>>)

\* C6: the grid repr_tree hands to fit_column_width, for every input that
\* passed the root check and was tabularized, has at least one row and one
\* column and rows of one length.
C6_GridIsRectangular ==
    (pc = "trivial" /\ Len(cells) # 1)
        => /\ Len(cells) >= 1
           /\ \A r \in 1..Len(cells) : Len(cells[r]) >= 1 /\ Len(cells[r]) = Len(cells[1])

\* The grid g has one row per label of L, in order; the row of a label
\* holds the label's text in the column of its depth and EMPTY_CELL
\* everywhere else.
RowsAreLabels(g, L) ==
    /\ Len(g) = Len(L)
    /\ \A r \in 1..Len(L) :
         /\ Len(g[r]) > L[r].depth
         /\ \A c \in 1..Len(g[r]) :
              g[r][c] = IF c = L[r].depth + 1 THEN L[r].text ELSE EMPTY_CELL

\* C7: the grid tabularize_tree returns has one row per label of the tree
\* (keys, scalars and, unless simple_mode, list indices) in depth-first
\* pre-order; the row of a label holds the label's text in the column that
\* is the number of its labelled ancestors and EMPTY_CELL everywhere else.
\* Checked of the grid repr_tree got, and of tabularize_tree on every
\* document, whatever its root.
C7_RowsAreLabels ==
    /\ pc = "trivial" => RowsAreLabels(cells, TreeLabels)
    /\ tabularize_tree(tree_object, simple_mode).err = "none"
         => RowsAreLabels(tabularize_tree(tree_object, simple_mode).cells, TreeLabels)

\* A simple-mode grid of a tree with a list of several items under a key.
C7_Witness ==
    /\ pc = "trivial"
    /\ simple_mode
    /\ Len(cells) >= 3
    /\ \E n \in Nodes(tree_object) : n.kind = "list" /\ Len(n.kids) >= 2
    /\ \E r \in 1..Len(cells) : Len(cells[r]) >= 2 /\ cells[r][2] # EMPTY_CELL

\* C8: the errors of draw and connect are unreachable: every connect call
\* has the child below the parent, every VERTICAL meets a cell that is
\* blank or starts with VERTICAL, CORNER or JUNCTION, and every HORIZONTAL
\* meets a blank cell.
C8_DrawErrorsUnreachable ==
    /\ err \notin {"DrawViolation", "InvalidConnection"}
    /\ pc = "connect" => child_i > parent_i
    /\ (pc = "draw" /\ i < child_i) =>
          \/ IsBlank(At(cells, i, j))
          \/ At(cells, i, j)[1] \in {VERTICAL, CORNER, JUNCTION}
    /\ (pc = "draw" /\ i >= child_i) => IsBlank(At(cells, child_i, j))

\* A VERTICAL is about to be drawn over a JUNCTION (a third child is being
\* connected).
C8_Witness ==
    /\ pc = "draw"
    /\ i < child_i
    /\ FirstChar(At(cells, i, j)) = JUNCTION

C9_EmptyContainerRenders ==
    (Finished /\ IsSingleRoot(tree_object) /\ HasEmptyContainer(tree_object)
              /\ ~HasBlankLeaf(tree_object) /\ ~HasNull(tree_object))
        => (pc = "returned" /\ err = "none" /\ result # <<>>)

====
